---- MODULE Spec2Model ----
(***************************************************************************)
(* A model of the package update path of lpm (core/src/update.rs), of the  *)
(* package validator (core/src/validate.rs), of the database migrations    *)
(* (db/src/migrations.rs) and of the command dispatch of main              *)
(* (main/src/main.rs), each with its own specification over one state.     *)
(*                                                                         *)
(* Strings whose letter case matters (checksum algorithm names and hex     *)
(* digests) are sequences of one-character strings.  Paths are sequences   *)
(* of components; an absolute path starts with the component "/".          *)
(***************************************************************************)
EXTENDS Integers, Sequences, FiniteSets, TLC

VARIABLES
    pc,         \* position of the running update inside update_lod / start_update_task
    runs,       \* number of update invocations started so far
    old_pkg,    \* PkgDataFromDb loaded by update_lod: [version, files]
    to_pkg,     \* PkgDataFromFs extracted from the artifact: [version, arch, files, program]
    phases,     \* (pre_script, post_script) chosen by the version comparison
    file_i,     \* index of the loop of compare_and_update_files_on_fs that runs next
    result,     \* what the operation returned: "none" while running, "Ok" or an error kind
    fs,         \* regular files under the system root: absolute path -> content or "missing"
    dirs,       \* directories that exist under the system root
    staging,    \* TRUE while the staging directory of the artifact of this run exists
    catalog,    \* committed catalog rows of the package: [version, files]
    pending,    \* catalog rows as seen inside the open connection
    txn,        \* catalog transaction: "none", "open", "committed", "rolledback", "rollback_failed"
    executed,   \* sequence of script phases executed in this run
    steps,      \* outcome of each pipeline step of this run: "none", "ok", "failed"
    fslog,      \* sequence of filesystem operations performed by the diff in this run
    reads,      \* sequence of staged files opened by the validator in this run
    pre,        \* snapshot [fs, dirs, catalog] taken when the run started
    installed_scripts, \* version of the package whose scripts are under the scripts root
    foreign_keys, \* TRUE when the open connection to the core database enforces foreign keys
    mpc,        \* position of the running migrate_database_tables
    mruns,      \* number of migrate_database_tables invocations started so far
    version,    \* the local counter initial_version of migrate_database_tables
    db,         \* the core database: [user_version, tables, triggers, checksum_kinds]
    mlog,       \* what the migration functions did in this run: [op, step, stored]
    mresult,    \* what migrate_database_tables returned: "none", "Ok" or an error kind
    mstart,     \* the database as it was when this run started
    mprev,      \* what the run before this one returned, "none" in the first run
    command,    \* the command parsed from the arguments of the process
    ip,         \* index of the next expression of main to evaluate
    calls,      \* functions called by main so far, with their outcomes
    errlog,     \* what main has written to the error log
    exit_code   \* exit code of the process, -1 while it runs

update_vars == <<pc, runs, old_pkg, to_pkg, phases, file_i, result, fs, dirs, staging,
                 catalog, pending, txn, executed, steps, fslog, reads, pre,
                 installed_scripts>>

migration_vars == <<mpc, mruns, version, db, mlog, mresult, mstart, mprev>>

main_vars == <<command, ip, calls, errlog, exit_code>>

vars == <<update_vars, migration_vars, main_vars, foreign_keys>>

----------------------------------------------------------------------------
(* Bounds *)

MaxRuns == 2        \* update invocations per behaviour
MaxFiles == 2       \* entries of a manifest in the update specification
MaxEntries == 2     \* entries of a manifest in the validation specification
MaxMigrations == 2  \* invocations of migrate_database_tables per behaviour
MaxSubcommands == 2 \* subcommands of one update command

----------------------------------------------------------------------------
(* Strings with letter case *)

to_lowercase_char(c) ==
    CASE c = "A" -> "a" [] c = "B" -> "b" [] c = "C" -> "c" [] c = "D" -> "d"
      [] c = "E" -> "e" [] c = "F" -> "f" [] c = "H" -> "h" [] c = "M" -> "m"
      [] c = "S" -> "s" [] OTHER -> c

(* variant: the algorithm name is used as written *)
to_lowercase_dropped(s) == s

(* str::to_lowercase *)
to_lowercase(s) == [k \in DOMAIN s |-> to_lowercase_char(s[k])]

MD5 == <<"m", "d", "5">>
SHA256 == <<"s", "h", "a", "2", "5", "6">>
SHA512 == <<"s", "h", "a", "5", "1", "2">>

(* ChecksumKind::as_str *)
as_str(kind) ==
    CASE kind = "Md5" -> MD5 [] kind = "Sha256" -> SHA256 [] kind = "Sha512" -> SHA512

(* ChecksumKind::from_str: exact match of the three names, "Err" otherwise *)
from_str(kind) ==
    CASE kind = MD5 -> "Md5"
      [] kind = SHA256 -> "Sha256"
      [] kind = SHA512 -> "Sha512"
      [] OTHER -> "Err"

(* hash::digest_to_hex_string(&<kind>::digest(&buffer)): lowercase hex.  The *)
(* digest of a content is one letter for the algorithm and one digit for    *)
(* the content, so different algorithms and contents give different hex.    *)
digest_to_hex_string(kind, buffer) ==
    <<CASE kind = "Md5" -> "a" [] kind = "Sha256" -> "b" [] kind = "Sha512" -> "c",
      CASE buffer = "c1" -> "1" [] buffer = "c2" -> "2">>

NO_ARCH == "any"
SYSTEM_ARCH == "x86_64"

----------------------------------------------------------------------------
(* Paths *)

RelPaths == {<<"a">>, <<"b">>, <<"d", "c">>}

(* "/".to_owned() + &file.path *)
RootConcat(path) == <<"/">> \o path

(* Path::new("/").join(&file.path): an absolute argument replaces the base *)
Join(base, path) == IF path # <<>> /\ path[1] = "/" THEN path ELSE base \o path

(* Path::parent *)
Parent(path) == SubSeq(path, 1, Len(path) - 1)

AbsPaths == {RootConcat(p) : p \in RelPaths}

(* every ancestor directory of an absolute path, the root included *)
Ancestors(path) == {SubSeq(path, 1, n) : n \in 1..(Len(path) - 1)}

----------------------------------------------------------------------------
(* Validation: core/src/validate.rs *)

(* the error an std::io::Error becomes when `?` carries it out of a task    *)
io_error == "Io"

(* check_program_checksums: the loop over the manifest, from entry k on.    *)
(* Returns the result and the staged files opened, in order.                *)
RECURSIVE check_from(_, _, _, _)
check_from(files, program, k, opened) ==
    IF k > Len(files) THEN [result |-> "Ok", reads |-> opened]
    ELSE LET file == files[k]
             now == Append(opened, file.path)
         IN  IF program[file.path] = "missing"
             THEN [result |-> io_error, reads |-> opened]
             ELSE LET checksum_algorithm == from_str(to_lowercase(file.checksum_algorithm))
                  IN  IF checksum_algorithm # "Err"
                      THEN IF digest_to_hex_string(checksum_algorithm, program[file.path])
                                # file.checksum
                           THEN [result |-> "InvalidPackageFiles", reads |-> now]
                           ELSE check_from(files, program, k + 1, now)
                      ELSE [result |-> "UnsupportedChecksumAlgorithm", reads |-> now]

check_program_checksums(files, program) == check_from(files, program, 1, <<>>)

(* variant: the checksums are verified before the architecture *)
start_validate_task_checksums_first(pkg) ==
    LET checked == check_program_checksums(pkg.files, pkg.program)
    IN  IF checked.result # "Ok" THEN checked
        ELSE IF pkg.arch # NO_ARCH /\ pkg.arch # SYSTEM_ARCH
        THEN [result |-> "UnsupportedPackageArchitecture", reads |-> checked.reads]
        ELSE checked

(* PkgValidateTasks::start_validate_task *)
start_validate_task(pkg) ==
    IF pkg.arch # NO_ARCH /\ pkg.arch # SYSTEM_ARCH
    THEN [result |-> "UnsupportedPackageArchitecture", reads |-> <<>>]
    ELSE check_program_checksums(pkg.files, pkg.program)

----------------------------------------------------------------------------
(* Packages *)

Contents == {"c1", "c2"}

Versions ==
    {[major |-> 1, minor |-> 1, patch |-> 0, tag |-> "rc"],
     [major |-> 1, minor |-> 1, patch |-> 0, tag |-> ""]}

(* Version::compare: lexicographic on (major, minor, patch); with equal     *)
(* numbers a version without a tag is greater than one with a tag           *)
compare(a, b) ==
    IF a.major # b.major THEN (IF a.major < b.major THEN "Less" ELSE "Greater")
    ELSE IF a.minor # b.minor THEN (IF a.minor < b.minor THEN "Less" ELSE "Greater")
    ELSE IF a.patch # b.patch THEN (IF a.patch < b.patch THEN "Less" ELSE "Greater")
    ELSE IF a.tag = b.tag THEN "Equal"
    ELSE IF a.tag = "" THEN "Greater"
    ELSE IF b.tag = "" THEN "Less"
    ELSE "Equal"

(* a manifest entry whose checksum is the digest of the given content *)
Entry(path, algorithm, content) ==
    [path |-> path, checksum_algorithm |-> algorithm,
     checksum |-> digest_to_hex_string(from_str(algorithm), content)]

SeqsUpTo(S, n) == UNION {[1..m -> S] : m \in 0..n}

DistinctPaths(files) ==
    \A k, l \in DOMAIN files : files[k].path = files[l].path => k = l

(* manifests of the update specification: paths are distinct, as the        *)
(* catalog requires of the rows of a package (files.absolute_path UNIQUE)   *)
UpdateEntries == {Entry(p, SHA256, c) : p \in RelPaths, c \in Contents}

UpdateManifests == {m \in SeqsUpTo(UpdateEntries, MaxFiles) : DistinctPaths(m)}

(* the staged program/ tree that extraction produces for a manifest whose   *)
(* checksums were computed from these contents                              *)
ProgramOf(files) ==
    [p \in RelPaths |->
        IF \E k \in DOMAIN files : files[k].path = p
        THEN LET k == CHOOSE k \in DOMAIN files : files[k].path = p
             IN  CHOOSE c \in Contents : files[k].checksum
                    = digest_to_hex_string(from_str(to_lowercase(files[k].checksum_algorithm)), c)
        ELSE "missing"]

UpdatePkgs ==
    {[version |-> v, arch |-> SYSTEM_ARCH, files |-> m, program |-> ProgramOf(m)] :
        v \in Versions, m \in UpdateManifests}
    \cup {[version |-> v, arch |-> "arm", files |-> <<>>, program |-> ProgramOf(<<>>)] :
        v \in Versions}

(* the rows update_existing_pkg writes for a package: paths become absolute *)
RowsOf(pkg) ==
    [version |-> pkg.version,
     files |-> [k \in DOMAIN pkg.files |->
                  [path |-> RootConcat(pkg.files[k].path),
                   checksum_algorithm |-> pkg.files[k].checksum_algorithm,
                   checksum |-> pkg.files[k].checksum]]]

StepNames == {"validate", "pre_script", "diff", "sync", "cleanup", "post_script", "commit"}

NoPkg == [version |-> CHOOSE v \in Versions : TRUE, arch |-> NO_ARCH, files |-> <<>>,
          program |-> [p \in RelPaths |-> "missing"]]

----------------------------------------------------------------------------
(* The core database and its migrations: db/src/migrations.rs               *)

INITIAL_VERSION == 0

(* a database file that no migration has touched *)
NewDb == [user_version |-> 0, tables |-> {}, triggers |-> {}, checksum_kinds |-> <<>>]

CreateTable(table) == [kind |-> "table", name |-> table, on |-> "", rows |-> <<>>]
CreateTrigger(trigger, table) == [kind |-> "trigger", name |-> trigger, on |-> table, rows |-> <<>>]
InsertInto(table, values) == [kind |-> "insert", name |-> "", on |-> table, rows |-> values]

(* the statement string of create_core_tables, lines 63-169 *)
core_tables_statement ==
    <<CreateTable("checksum_kinds"), CreateTable("package_kinds"),
      CreateTable("repositories"), CreateTable("packages"), CreateTable("files"),
      CreateTable("package_tags"), CreateTable("modules")>>

(* the statement string of create_update_triggers_for_core_tables, lines 190-214 *)
update_triggers_statement ==
    <<CreateTrigger("repositories_update_trigger", "repositories"),
      CreateTrigger("packages_update_trigger", "packages")>>

(* the statement string of insert_defaults, lines 230-238 *)
defaults_statement ==
    <<InsertInto("checksum_kinds", <<"md5", "sha256", "sha512">>)>>

Range(s) == {s[k] : k \in DOMAIN s}

(* one SQL statement run by the database: CREATE fails on a name that       *)
(* exists, CREATE TRIGGER and INSERT fail on a table that does not exist,   *)
(* INSERT fails on a kind that is already there (kind is UNIQUE, line 72)   *)
run_statement(d, st) ==
    CASE st.kind = "table" ->
            IF st.name \in d.tables THEN [ok |-> FALSE, db |-> d]
            ELSE [ok |-> TRUE, db |-> [d EXCEPT !.tables = @ \cup {st.name}]]
      [] st.kind = "trigger" ->
            IF st.name \in d.triggers \/ st.on \notin d.tables THEN [ok |-> FALSE, db |-> d]
            ELSE [ok |-> TRUE, db |-> [d EXCEPT !.triggers = @ \cup {st.name}]]
      [] st.kind = "insert" ->
            IF st.on \notin d.tables \/ Range(st.rows) \cap Range(d.checksum_kinds) # {}
            THEN [ok |-> FALSE, db |-> d]
            ELSE [ok |-> TRUE, db |-> [d EXCEPT !.checksum_kinds = @ \o st.rows]]

(* db.execute(statement, ..): the statements of the string run one after    *)
(* the other outside any transaction; the call stops at the first statement *)
(* that fails and keeps what the statements before it did.  fail_at is the  *)
(* statement at which the database itself fails (0: it does not).           *)
RECURSIVE execute_from(_, _, _, _)
execute_from(d, statement, j, fail_at) ==
    IF j > Len(statement) THEN [ok |-> TRUE, db |-> d]
    ELSE IF j = fail_at THEN [ok |-> FALSE, db |-> d]
    ELSE LET r == run_statement(d, statement[j])
         IN  IF r.ok THEN execute_from(r.db, statement, j + 1, fail_at)
             ELSE [ok |-> FALSE, db |-> d]

execute(d, statement, fail_at) == execute_from(d, statement, 1, fail_at)

(* variant: the version written is one less than the version of the step *)
set_migration_version_behind(d, v) == [d EXCEPT !.user_version = v - 1]

(* set_migration_version, lines 30-39: PRAGMA user_version = v *)
set_migration_version(d, v) == [d EXCEPT !.user_version = v]

(* variant: a step at the stored version migrates again *)
can_migrate_again(d, v) == v >= d.user_version

(* variant: a step migrates only when it is two versions ahead *)
can_migrate_far(d, v) == v > d.user_version + 1

(* can_migrate, lines 41-54 *)
can_migrate(d, v) == v > d.user_version

(* the migration functions in the order of lines 19-21 *)
migrations ==
    <<[fn |-> "create_core_tables", statement |-> core_tables_statement],
      [fn |-> "create_update_triggers_for_core_tables", statement |-> update_triggers_statement],
      [fn |-> "insert_defaults", statement |-> defaults_statement]>>

(* the database after the migrations 1..k ran on a new database file *)
RECURSIVE MigratedTo(_)
MigratedTo(k) ==
    IF k = 0 THEN NewDb
    ELSE set_migration_version(execute(MigratedTo(k - 1), migrations[k].statement, 0).db, k)

NoMigration ==
    /\ mpc = "idle"
    /\ mruns = 0
    /\ version = INITIAL_VERSION
    /\ db = MigratedTo(Len(migrations))
    /\ mlog = <<>>
    /\ mresult = "none"
    /\ mstart = db
    /\ mprev = "none"

(* the process of main has not parsed its arguments *)
NoCommand ==
    /\ command = [kind |-> "None", sub |-> "", pkg_name |-> TRUE, subcommands |-> <<>>,
                  args |-> 0]
    /\ ip = 1
    /\ calls = <<>>
    /\ errlog = <<>>
    /\ exit_code = -1

----------------------------------------------------------------------------
(* Initial state: one package installed, version 1.1.0-rc, owning /a and    *)
(* /d/c; /b exists and belongs to no package.  Disk and catalog agree.      *)

InstalledPkg ==
    [version |-> [major |-> 1, minor |-> 1, patch |-> 0, tag |-> "rc"],
     arch |-> SYSTEM_ARCH,
     files |-> <<Entry(<<"a">>, SHA256, "c1"), Entry(<<"d", "c">>, SHA256, "c1")>>,
     program |-> [p \in RelPaths |-> "missing"]]

NoSteps == [s \in StepNames |-> "none"]

Init ==
    /\ pc = "idle"
    /\ runs = 0
    /\ old_pkg = RowsOf(InstalledPkg)
    /\ to_pkg = NoPkg
    /\ phases = <<"none", "none">>
    /\ file_i = 1
    /\ result = "none"
    /\ fs = [p \in AbsPaths |-> IF p = <<"/", "b">> THEN "c2" ELSE "c1"]
    /\ dirs = {<<"/">>, <<"/", "d">>}
    /\ staging = FALSE
    /\ catalog = RowsOf(InstalledPkg)
    /\ pending = RowsOf(InstalledPkg)
    /\ txn = "none"
    /\ executed = <<>>
    /\ steps = NoSteps
    /\ fslog = <<>>
    /\ reads = <<>>
    /\ pre = [fs |-> fs, dirs |-> dirs, catalog |-> catalog]
    /\ installed_scripts = InstalledPkg.version
    /\ foreign_keys = FALSE
    /\ NoMigration
    /\ NoCommand

----------------------------------------------------------------------------
(* update_lod and PkgUpdateTasks::start_update_task: core/src/update.rs     *)

(* the function returns: the connection, if one is open, is dropped *)
Return(r) ==
    /\ pc' = "done"
    /\ result' = r

(* transaction_op(&db, Transaction::Rollback)?; return Err(err)             *)
(* a failing rollback returns its own error instead of err                  *)
RollbackAndReturn(err) ==
    \E rolled_back \in BOOLEAN :
        IF rolled_back
        THEN /\ txn' = "rolledback"
             /\ pending' = catalog
             /\ Return(err)
        ELSE /\ txn' = "rollback_failed"
             /\ UNCHANGED pending
             /\ Return("SqlError")

(* the process exits after the command: what the invocation held in memory *)
(* is gone, the disk and the committed catalog stay.  staging follows the   *)
(* directory of the artifact of the running invocation only: a directory    *)
(* left behind by an earlier invocation is no longer tracked.               *)
exit ==
    /\ pc = "done"
    /\ runs < MaxRuns
    /\ pc' = "idle"
    /\ old_pkg' = catalog
    /\ to_pkg' = NoPkg
    /\ phases' = <<"none", "none">>
    /\ file_i' = 1
    /\ result' = "none"
    /\ staging' = FALSE
    /\ txn' = "none"
    /\ pending' = catalog
    /\ executed' = <<>>
    /\ steps' = NoSteps
    /\ fslog' = <<>>
    /\ reads' = <<>>
    /\ pre' = [fs |-> fs, dirs |-> dirs, catalog |-> catalog]
    /\ UNCHANGED <<runs, fs, dirs, catalog>>
    /\ UNCHANGED <<installed_scripts, foreign_keys, migration_vars, main_vars>>

(* update_lod, lines 163-170: load the installed package from the catalog,  *)
(* extract the requested artifact into its staging directory                *)
update_lod ==
    /\ pc = "idle"
    /\ runs < MaxRuns
    /\ \E requested_pkg \in UpdatePkgs :
        /\ to_pkg' = requested_pkg
        /\ old_pkg' = catalog
        /\ runs' = runs + 1
        /\ staging' = TRUE
        /\ pc' = "compare"
        /\ pre' = [fs |-> fs, dirs |-> dirs, catalog |-> catalog]
        /\ UNCHANGED <<phases, file_i, result, fs, dirs, catalog, pending, txn, executed,
                       steps, fslog, reads>>
    /\ foreign_keys' = FALSE
    /\ UNCHANGED <<installed_scripts, migration_vars, main_vars>>

(* variant: equal versions are treated as an upgrade *)
select_scripts_equal_upgrades(ordering) ==
    CASE ordering = "Less" -> <<"PreUpgrade", "PostUpgrade">>
      [] ordering = "Greater" -> <<"PreDowngrade", "PostDowngrade">>
      [] ordering = "Equal" -> <<"PreUpgrade", "PostUpgrade">>

(* variant: the arms of Less and Greater are exchanged *)
select_scripts_swapped(ordering) ==
    CASE ordering = "Less" -> <<"PreDowngrade", "PostDowngrade">>
      [] ordering = "Greater" -> <<"PreUpgrade", "PostUpgrade">>
      [] ordering = "Equal" -> <<"return", "return">>

(* lines 38-59: the arms of the version comparison *)
select_scripts(ordering) ==
    CASE ordering = "Less" -> <<"PreUpgrade", "PostUpgrade">>
      [] ordering = "Greater" -> <<"PreDowngrade", "PostDowngrade">>
      [] ordering = "Equal" -> <<"return", "return">>

compare_versions ==
    /\ pc = "compare"
    /\ LET chosen == select_scripts(compare(old_pkg.version, to_pkg.version))
       IN  IF chosen = <<"return", "return">>
           THEN /\ Return("Ok")
                /\ UNCHANGED phases
           ELSE /\ phases' = chosen
                /\ pc' = "get_scripts"
                /\ UNCHANGED result
    /\ UNCHANGED <<runs, old_pkg, to_pkg, file_i, fs, dirs, staging, catalog, pending,
                   txn, executed, steps, fslog, reads, pre>>
    /\ UNCHANGED <<installed_scripts, foreign_keys, migration_vars, main_vars>>

(* lines 61-62: get_scripts(...)? reads the installed scripts directory *)
load_scripts ==
    /\ pc = "get_scripts"
    /\ \E ok \in BOOLEAN :
        IF ok THEN pc' = "validate" /\ UNCHANGED result
        ELSE Return("Io")
    /\ UNCHANGED <<runs, old_pkg, to_pkg, phases, file_i, fs, dirs, staging, catalog,
                   pending, txn, executed, steps, fslog, reads, pre>>
    /\ UNCHANGED <<installed_scripts, foreign_keys, migration_vars, main_vars>>

(* line 64: to_pkg.start_validate_task()? *)
validate ==
    /\ pc = "validate"
    /\ LET v == start_validate_task(to_pkg)
       IN  /\ reads' = v.reads
           /\ IF v.result = "Ok"
              THEN /\ pc' = "open_db"
                   /\ steps' = [steps EXCEPT !["validate"] = "ok"]
                   /\ UNCHANGED result
              ELSE /\ Return(v.result)
                   /\ steps' = [steps EXCEPT !["validate"] = "failed"]
    /\ UNCHANGED <<runs, old_pkg, to_pkg, phases, file_i, fs, dirs, staging, catalog,
                   pending, txn, executed, fslog, pre>>
    /\ UNCHANGED <<installed_scripts, foreign_keys, migration_vars, main_vars>>

(* begin(): step 3 of the update sequence opens the catalog transaction *)
begin ==
    /\ txn' = "open"
    /\ pending' = catalog

(* line 67: Database::open(...)? *)
open_db ==
    /\ pc = "open_db"
    /\ \E ok \in BOOLEAN :
        IF ok
        THEN /\ begin
             /\ pc' = "pre_script"
             /\ UNCHANGED result
        ELSE /\ Return("SqlError")
             /\ UNCHANGED <<txn, pending>>
    /\ UNCHANGED <<runs, old_pkg, to_pkg, phases, file_i, fs, dirs, staging, catalog,
                   executed, steps, fslog, reads, pre>>
    /\ foreign_keys' = FALSE
    /\ UNCHANGED <<installed_scripts, migration_vars, main_vars>>

(* lines 68-71: scripts.execute_script(pre_script) *)
run_pre_script ==
    /\ pc = "pre_script"
    /\ executed' = Append(executed, phases[1])
    /\ \E ok \in BOOLEAN :
        IF ok
        THEN /\ pc' = "diff"
             /\ steps' = [steps EXCEPT !["pre_script"] = "ok"]
             /\ UNCHANGED <<result, txn, pending>>
        ELSE /\ steps' = [steps EXCEPT !["pre_script"] = "failed"]
             /\ RollbackAndReturn("ScriptFailed")
    /\ UNCHANGED <<runs, old_pkg, to_pkg, phases, file_i, fs, dirs, staging, catalog,
                   fslog, reads, pre>>
    /\ UNCHANGED <<installed_scripts, foreign_keys, migration_vars, main_vars>>

----------------------------------------------------------------------------
(* PkgUpdateTasks::compare_and_update_files_on_fs: lines 103-159            *)

(* iter().position(|f| f.path == path): index of the first match, 0 if none *)
position(files, path) ==
    IF \E k \in DOMAIN files : files[k].path = path
    THEN CHOOSE k \in DOMAIN files :
            /\ files[k].path = path
            /\ \A l \in DOMAIN files : files[l].path = path => k <= l
    ELSE 0

(* Vec::remove(index) *)
remove(files, index) == SubSeq(files, 1, index - 1) \o SubSeq(files, index + 1, Len(files))

(* variant: the checksum comparison is inverted *)
same_file_inverted(found_file, file) ==
    /\ found_file.checksum_algorithm = file.checksum_algorithm
    /\ found_file.checksum # file.checksum

(* lines 119-120: both files are exactly the same *)
same_file(found_file, file) ==
    /\ found_file.checksum_algorithm = file.checksum_algorithm
    /\ found_file.checksum = file.checksum

Op(op, path) == [op |-> op, path |-> path]

(* lines 108-148: the body of the first loop for new_files[file_i].          *)
(* io names the filesystem call that the environment makes fail, if any.    *)
diff_file(io) ==
    LET file == to_pkg.files[file_i]
        file_index == position(old_pkg.files, RootConcat(file.path))
        destination_path == Join(<<"/">>, file.path)
        source == to_pkg.program[file.path]
        same == [ok |-> TRUE, files |-> old_pkg.files, fs |-> fs, dirs |-> dirs, log |-> fslog]
    IN  IF file_index # 0
        THEN LET found_file == old_pkg.files[file_index]
             IN  IF same_file(found_file, file)
                 THEN [same EXCEPT !.files = remove(old_pkg.files, file_index)]
                 ELSE IF io = "remove_file" \/ fs[found_file.path] = "missing"
                 THEN [same EXCEPT !.ok = FALSE]
                 ELSE LET removed == [same EXCEPT
                                        !.files = remove(old_pkg.files, file_index),
                                        !.fs = [fs EXCEPT ![found_file.path] = "missing"],
                                        !.log = Append(fslog, Op("remove", found_file.path))]
                      IN  IF io = "copy" \/ source = "missing"
                                \/ Parent(destination_path) \notin dirs
                          THEN [removed EXCEPT !.ok = FALSE]
                          ELSE [removed EXCEPT
                                  !.fs = [removed.fs EXCEPT ![destination_path] = source],
                                  !.log = Append(removed.log, Op("copy", destination_path))]
        ELSE IF io = "create_dir_all"
        THEN [same EXCEPT !.ok = FALSE]
        ELSE LET made == [same EXCEPT !.dirs = dirs \cup Ancestors(destination_path)]
             IN  IF io = "copy" \/ source = "missing"
                 THEN [made EXCEPT !.ok = FALSE]
                 ELSE [made EXCEPT
                         !.fs = [fs EXCEPT ![destination_path] = source],
                         !.log = Append(fslog, Op("copy", destination_path))]

(* one iteration of the loop of lines 108-148; the task returns at line 74  *)
(* when the iteration fails                                                 *)
update_file ==
    /\ pc = "diff"
    /\ file_i <= Len(to_pkg.files)
    /\ \E io \in {"none", "remove_file", "create_dir_all", "copy"} :
        LET r == diff_file(io)
        IN  /\ fs' = r.fs
            /\ dirs' = r.dirs
            /\ fslog' = r.log
            /\ old_pkg' = [old_pkg EXCEPT !.files = r.files]
            /\ IF r.ok
               THEN /\ file_i' = file_i + 1
                    /\ UNCHANGED <<pc, result, steps>>
               ELSE /\ Return("Io")
                    /\ steps' = [steps EXCEPT !["diff"] = "failed"]
                    /\ UNCHANGED file_i
    /\ UNCHANGED <<runs, to_pkg, phases, staging, catalog, pending, txn, executed,
                   reads, pre>>
    /\ UNCHANGED <<installed_scripts, foreign_keys, migration_vars, main_vars>>

(* the first loop is exhausted: the second loop starts *)
files_updated ==
    /\ pc = "diff"
    /\ file_i > Len(to_pkg.files)
    /\ pc' = "remove"
    /\ file_i' = 1
    /\ UNCHANGED <<runs, old_pkg, to_pkg, phases, result, fs, dirs, staging, catalog,
                   pending, txn, executed, steps, fslog, reads, pre>>
    /\ UNCHANGED <<installed_scripts, foreign_keys, migration_vars, main_vars>>

(* variant: the second loop walks the old list from its end *)
remove_old_file_reversed ==
    /\ pc = "remove"
    /\ file_i <= Len(old_pkg.files)
    /\ LET file == old_pkg.files[Len(old_pkg.files) + 1 - file_i]
       IN  \E io \in {"none", "remove_file"} :
            IF io = "remove_file" \/ fs[file.path] = "missing"
            THEN /\ Return("Io")
                 /\ steps' = [steps EXCEPT !["diff"] = "failed"]
                 /\ UNCHANGED <<fs, fslog, file_i>>
            ELSE /\ fs' = [fs EXCEPT ![file.path] = "missing"]
                 /\ fslog' = Append(fslog, Op("remove", file.path))
                 /\ file_i' = file_i + 1
                 /\ UNCHANGED <<pc, result, steps>>
    /\ UNCHANGED <<runs, old_pkg, to_pkg, phases, dirs, staging, catalog, pending, txn,
                   executed, reads, pre>>
    /\ UNCHANGED <<installed_scripts, foreign_keys, migration_vars, main_vars>>

(* variant: the parent directory that the removal empties is removed too *)
remove_old_file_prunes ==
    /\ pc = "remove"
    /\ file_i <= Len(old_pkg.files)
    /\ LET file == old_pkg.files[file_i]
       IN  \E io \in {"none", "remove_file"} :
            IF io = "remove_file" \/ fs[file.path] = "missing"
            THEN /\ Return("Io")
                 /\ steps' = [steps EXCEPT !["diff"] = "failed"]
                 /\ UNCHANGED <<fs, dirs, fslog, file_i>>
            ELSE /\ fs' = [fs EXCEPT ![file.path] = "missing"]
                 /\ dirs' = IF \E p \in AbsPaths :
                                  p # file.path /\ Parent(p) = Parent(file.path)
                                  /\ fs[p] # "missing"
                            THEN dirs
                            ELSE dirs \ {Parent(file.path)}
                 /\ fslog' = Append(fslog, Op("remove", file.path))
                 /\ file_i' = file_i + 1
                 /\ UNCHANGED <<pc, result, steps>>
    /\ UNCHANGED <<runs, old_pkg, to_pkg, phases, staging, catalog, pending, txn,
                   executed, reads, pre>>
    /\ UNCHANGED <<installed_scripts, foreign_keys, migration_vars, main_vars>>

(* one iteration of the loop of lines 150-156 *)
remove_old_file ==
    /\ pc = "remove"
    /\ file_i <= Len(old_pkg.files)
    /\ LET file == old_pkg.files[file_i]
       IN  \E io \in {"none", "remove_file"} :
            IF io = "remove_file" \/ fs[file.path] = "missing"
            THEN /\ Return("Io")
                 /\ steps' = [steps EXCEPT !["diff"] = "failed"]
                 /\ UNCHANGED <<fs, fslog, file_i>>
            ELSE /\ fs' = [fs EXCEPT ![file.path] = "missing"]
                 /\ fslog' = Append(fslog, Op("remove", file.path))
                 /\ file_i' = file_i + 1
                 /\ UNCHANGED <<pc, result, steps>>
    /\ UNCHANGED <<runs, old_pkg, to_pkg, phases, dirs, staging, catalog, pending, txn,
                   executed, reads, pre>>
    /\ UNCHANGED <<installed_scripts, foreign_keys, migration_vars, main_vars>>

(* line 158: compare_and_update_files_on_fs returns Ok(()) *)
files_removed ==
    /\ pc = "remove"
    /\ file_i > Len(old_pkg.files)
    /\ pc' = "sync"
    /\ steps' = [steps EXCEPT !["diff"] = "ok"]
    /\ UNCHANGED <<runs, old_pkg, to_pkg, phases, file_i, result, fs, dirs, staging,
                   catalog, pending, txn, executed, fslog, reads, pre>>
    /\ UNCHANGED <<installed_scripts, foreign_keys, migration_vars, main_vars>>

----------------------------------------------------------------------------
(* start_update_task, lines 76-98 *)

(* update_existing(pkg_id, new_pkg): replaces the file rows and rewrites    *)
(* the scalar columns, inside the open transaction                          *)
update_existing_pkg == pending' = RowsOf(to_pkg)

(* line 77: to_pkg.update_existing_pkg(&db, self.pkg_id)? *)
sync_catalog ==
    /\ pc = "sync"
    /\ \E ok \in BOOLEAN :
        IF ok
        THEN /\ update_existing_pkg
             /\ pc' = "cleanup"
             /\ steps' = [steps EXCEPT !["sync"] = "ok"]
             /\ UNCHANGED result
        ELSE /\ Return("SqlError")
             /\ steps' = [steps EXCEPT !["sync"] = "failed"]
             /\ UNCHANGED pending
    /\ UNCHANGED <<runs, old_pkg, to_pkg, phases, file_i, fs, dirs, staging, catalog,
                   txn, executed, fslog, reads, pre>>
    /\ UNCHANGED <<installed_scripts, foreign_keys, migration_vars, main_vars>>

(* lines 80-83: to_pkg.cleanup() deletes the staging directory *)
cleanup ==
    /\ pc = "cleanup"
    /\ \E ok \in BOOLEAN :
        IF ok
        THEN /\ staging' = FALSE
             /\ pc' = "post_script"
             /\ steps' = [steps EXCEPT !["cleanup"] = "ok"]
             /\ UNCHANGED <<result, txn, pending>>
        ELSE /\ steps' = [steps EXCEPT !["cleanup"] = "failed"]
             /\ RollbackAndReturn("Io")
             /\ UNCHANGED staging
    /\ UNCHANGED <<runs, old_pkg, to_pkg, phases, file_i, fs, dirs, catalog, executed,
                   fslog, reads, pre>>
    /\ UNCHANGED <<installed_scripts, foreign_keys, migration_vars, main_vars>>

(* variant: the result of the post-script is ignored *)
run_post_script_unchecked ==
    /\ pc = "post_script"
    /\ executed' = Append(executed, phases[2])
    /\ \E ok \in BOOLEAN :
        /\ pc' = "commit"
        /\ steps' = [steps EXCEPT !["post_script"] = IF ok THEN "ok" ELSE "failed"]
        /\ UNCHANGED <<result, txn, pending>>
    /\ UNCHANGED <<runs, old_pkg, to_pkg, phases, file_i, fs, dirs, staging, catalog,
                   fslog, reads, pre>>
    /\ UNCHANGED <<installed_scripts, foreign_keys, migration_vars, main_vars>>

(* lines 85-88: scripts.execute_script(post_script) *)
run_post_script ==
    /\ pc = "post_script"
    /\ executed' = Append(executed, phases[2])
    /\ \E ok \in BOOLEAN :
        IF ok
        THEN /\ pc' = "commit"
             /\ steps' = [steps EXCEPT !["post_script"] = "ok"]
             /\ UNCHANGED <<result, txn, pending>>
        ELSE /\ steps' = [steps EXCEPT !["post_script"] = "failed"]
             /\ RollbackAndReturn("ScriptFailed")
    /\ UNCHANGED <<runs, old_pkg, to_pkg, phases, file_i, fs, dirs, staging, catalog,
                   fslog, reads, pre>>
    /\ UNCHANGED <<installed_scripts, foreign_keys, migration_vars, main_vars>>

(* lines 90-98: transaction_op(&db, Transaction::Commit), db.close(), Ok(()) *)
commit ==
    /\ pc = "commit"
    /\ \E ok \in BOOLEAN :
        IF ok
        THEN /\ catalog' = pending
             /\ txn' = "committed"
             /\ steps' = [steps EXCEPT !["commit"] = "ok"]
             /\ Return("Ok")
             /\ UNCHANGED pending
        ELSE /\ steps' = [steps EXCEPT !["commit"] = "failed"]
             /\ RollbackAndReturn("SqlError")
             /\ UNCHANGED catalog
    /\ UNCHANGED <<runs, old_pkg, to_pkg, phases, file_i, fs, dirs, staging, executed,
                   fslog, reads, pre>>
    /\ UNCHANGED <<installed_scripts, foreign_keys, migration_vars, main_vars>>

Next ==
    \/ update_lod
    \/ exit
    \/ compare_versions
    \/ load_scripts
    \/ validate
    \/ open_db
    \/ run_pre_script
    \/ update_file
    \/ files_updated
    \/ remove_old_file
    \/ files_removed
    \/ sync_catalog
    \/ cleanup
    \/ run_post_script
    \/ commit

Spec == Init /\ [][Next]_vars

----------------------------------------------------------------------------
(* Validation alone: the inputs of start_validate_task are drawn from a     *)
(* bounded set of packages and the validate step applies it.                *)

ValidateAlgorithms ==
    {MD5, <<"M", "D", "5">>, <<"S", "h", "a", "2", "5", "6">>, <<"s", "h", "a", "1">>}

ValidateChecksums == {<<"a", "1">>, <<"A", "1">>, <<"b", "1">>, <<"a", "2">>}

ValidateEntries ==
    {[path |-> p, checksum_algorithm |-> a, checksum |-> c] :
        p \in {<<"a">>, <<"b">>}, a \in ValidateAlgorithms, c \in ValidateChecksums}

ValidatePrograms ==
    {[p \in RelPaths |-> IF p = <<"a">> THEN x ELSE IF p = <<"b">> THEN y ELSE "missing"] :
        x \in {"c1", "missing"}, y \in {"c1", "missing"}}

ValidatePkgs ==
    {[version |-> NoPkg.version, arch |-> a, files |-> m, program |-> g] :
        a \in {NO_ARCH, SYSTEM_ARCH, "arm"},
        m \in SeqsUpTo(ValidateEntries, MaxEntries),
        g \in ValidatePrograms}

InitValidate ==
    /\ pc = "validate"
    /\ runs = 1
    /\ old_pkg = RowsOf(InstalledPkg)
    /\ to_pkg \in ValidatePkgs
    /\ phases = <<"PreUpgrade", "PostUpgrade">>
    /\ file_i = 1
    /\ result = "none"
    /\ fs = [p \in AbsPaths |-> IF p = <<"/", "b">> THEN "c2" ELSE "c1"]
    /\ dirs = {<<"/">>, <<"/", "d">>}
    /\ staging = TRUE
    /\ catalog = RowsOf(InstalledPkg)
    /\ pending = RowsOf(InstalledPkg)
    /\ txn = "none"
    /\ executed = <<>>
    /\ steps = NoSteps
    /\ fslog = <<>>
    /\ reads = <<>>
    /\ pre = [fs |-> fs, dirs |-> dirs, catalog |-> catalog]
    /\ installed_scripts = InstalledPkg.version
    /\ foreign_keys = FALSE
    /\ NoMigration
    /\ NoCommand

NextValidate == validate

SpecValidate == InitValidate /\ [][NextValidate]_vars

----------------------------------------------------------------------------
(* migrate_database_tables: db/src/migrations.rs                             *)

(* the update path is not running *)
NoUpdate ==
    /\ pc = "idle"
    /\ runs = 0
    /\ old_pkg = RowsOf(InstalledPkg)
    /\ to_pkg = NoPkg
    /\ phases = <<"none", "none">>
    /\ file_i = 1
    /\ result = "none"
    /\ fs = [p \in AbsPaths |-> IF p = <<"/", "b">> THEN "c2" ELSE "c1"]
    /\ dirs = {<<"/">>, <<"/", "d">>}
    /\ staging = FALSE
    /\ catalog = RowsOf(InstalledPkg)
    /\ pending = RowsOf(InstalledPkg)
    /\ txn = "none"
    /\ executed = <<>>
    /\ steps = NoSteps
    /\ fslog = <<>>
    /\ reads = <<>>
    /\ pre = [fs |-> fs, dirs |-> dirs, catalog |-> catalog]
    /\ installed_scripts = InstalledPkg.version

MigrationReturn(r) ==
    /\ mpc' = "done"
    /\ mresult' = r

(* line 15: super::enable_foreign_keys(&db) *)
enable_foreign_keys == foreign_keys' = TRUE

(* lines 13-17: open the database, enable the foreign keys, start counting  *)
(* from INITIAL_VERSION.  A run starts on the database as the runs before   *)
(* it left it.                                                              *)
migrate_database_tables ==
    /\ mpc \in {"idle", "done"}
    /\ mruns < MaxMigrations
    /\ mruns' = mruns + 1
    /\ version' = INITIAL_VERSION
    /\ mlog' = <<>>
    /\ mstart' = db
    /\ mprev' = mresult
    /\ \E opened \in BOOLEAN :
        IF opened
        THEN mpc' = "create_core_tables" /\ mresult' = "none" /\ enable_foreign_keys
        ELSE MigrationReturn("SqlError") /\ foreign_keys' = FALSE
    /\ UNCHANGED db
    /\ UNCHANGED <<update_vars, main_vars>>

(* try_execute!(db, statement): a failed database call makes the calling    *)
(* function return the error                                                *)
try_execute(d, statement, fail_at) ==
    LET r == execute(d, statement, fail_at)
    IN  [ok |-> r.ok, db |-> r.db, err |-> IF r.ok THEN "none" ELSE "MigrationError"]

Event(o, k, succeeded) ==
    [op |-> o, fn |-> migrations[k].fn, version |-> version + 1,
     stored |-> db.user_version, ok |-> succeeded]

(* variant: a failed version write is ignored *)
migration_unchecked(k, next) ==
    /\ version' = version + 1
    /\ \E read \in BOOLEAN, fail_at \in 0..Len(migrations[k].statement), set \in BOOLEAN :
        IF ~read
        THEN /\ MigrationReturn("SqlError")
             /\ UNCHANGED <<db, mlog>>
        ELSE IF ~can_migrate(db, version + 1)
        THEN /\ mlog' = Append(mlog, Event("skip", k, TRUE))
             /\ mpc' = next
             /\ UNCHANGED <<db, mresult>>
        ELSE LET r == try_execute(db, migrations[k].statement, fail_at)
             IN  IF ~r.ok
                 THEN /\ db' = r.db
                      /\ mlog' = Append(mlog, Event("execute", k, FALSE))
                      /\ MigrationReturn(r.err)
                 ELSE IF set
                 THEN /\ db' = set_migration_version(r.db, version + 1)
                      /\ mlog' = mlog \o <<Event("execute", k, TRUE),
                                           Event("set_version", k, TRUE)>>
                      /\ mpc' = next
                      /\ UNCHANGED mresult
                 ELSE /\ db' = r.db
                      /\ mlog' = mlog \o <<Event("execute", k, TRUE),
                                           Event("set_version", k, FALSE)>>
                      /\ mpc' = next
                      /\ UNCHANGED mresult
    /\ UNCHANGED <<mruns, mstart, mprev>>
    /\ UNCHANGED <<update_vars, main_vars, foreign_keys>>

(* the body shared by the three migration functions (lines 56-62 and        *)
(* 171-175, 178-188 and 216-220, 223-228 and 240-244): count the version    *)
(* up, ask can_migrate, run the statement string, write the version         *)
migration(k, next) ==
    /\ version' = version + 1
    /\ \E read \in BOOLEAN, fail_at \in 0..Len(migrations[k].statement), set \in BOOLEAN :
        IF ~read
        THEN /\ MigrationReturn("SqlError")
             /\ UNCHANGED <<db, mlog>>
        ELSE IF ~can_migrate(db, version + 1)
        THEN /\ mlog' = Append(mlog, Event("skip", k, TRUE))
             /\ mpc' = next
             /\ UNCHANGED <<db, mresult>>
        ELSE LET r == try_execute(db, migrations[k].statement, fail_at)
             IN  IF ~r.ok
                 THEN /\ db' = r.db
                      /\ mlog' = Append(mlog, Event("execute", k, FALSE))
                      /\ MigrationReturn(r.err)
                 ELSE IF set
                 THEN /\ db' = set_migration_version(r.db, version + 1)
                      /\ mlog' = mlog \o <<Event("execute", k, TRUE),
                                           Event("set_version", k, TRUE)>>
                      /\ mpc' = next
                      /\ UNCHANGED mresult
                 ELSE /\ db' = r.db
                      /\ mlog' = mlog \o <<Event("execute", k, TRUE),
                                           Event("set_version", k, FALSE)>>
                      /\ MigrationReturn("MigrationError")
    /\ UNCHANGED <<mruns, mstart, mprev>>
    /\ UNCHANGED <<update_vars, main_vars, foreign_keys>>

(* line 19 *)
create_core_tables ==
    /\ mpc = "create_core_tables"
    /\ migration(1, "create_update_triggers_for_core_tables")

(* line 20 *)
create_update_triggers_for_core_tables ==
    /\ mpc = "create_update_triggers_for_core_tables"
    /\ migration(2, "insert_defaults")

(* line 21 *)
insert_defaults ==
    /\ mpc = "insert_defaults"
    /\ migration(3, "close")

(* lines 23-27: db.close(); Ok(()) *)
migrations_completed ==
    /\ mpc = "close"
    /\ MigrationReturn("Ok")
    /\ UNCHANGED <<mruns, version, db, mlog, mstart, mprev>>
    /\ UNCHANGED <<update_vars, main_vars, foreign_keys>>

(* the database of a run is a new file or one that earlier runs migrated    *)
(* up to some step                                                          *)
InitMigrate ==
    /\ NoUpdate
    /\ NoCommand
    /\ mpc = "idle"
    /\ mruns = 0
    /\ version = INITIAL_VERSION
    /\ db \in {MigratedTo(k) : k \in 0..Len(migrations)}
    /\ mlog = <<>>
    /\ mresult = "none"
    /\ mstart = db
    /\ mprev = "none"
    /\ foreign_keys = FALSE

NextMigrate ==
    \/ migrate_database_tables
    \/ create_core_tables
    \/ create_update_triggers_for_core_tables
    \/ insert_defaults
    \/ migrations_completed

SpecMigrate == InitMigrate /\ [][NextMigrate]_vars

----------------------------------------------------------------------------
(* main: main/src/main.rs                                                   *)

UpdateSubcommands == {"Local", "Index", "Db", "Packages", "All", "None"}

Cmd(k, s, name, subs, n) ==
    [kind |-> k, sub |-> s, pkg_name |-> name, subcommands |-> subs, args |-> n]

(* what Command::parse_args can return: pkg_name is TRUE when the update    *)
(* names a package, args is the number of arguments given to `add`          *)
Commands ==
    {Cmd("Install", s, TRUE, <<>>, 0) : s \in {"Local", "None"}}
    \cup {Cmd("Update", "", name, subs, 0) :
            name \in BOOLEAN, subs \in SeqsUpTo(UpdateSubcommands, MaxSubcommands)}
    \cup {Cmd("Delete", "", TRUE, <<>>, 0)}
    \cup {Cmd("Module", s, TRUE, <<>>, 0) : s \in {"None", "Delete", "List"}}
    \cup {Cmd("Module", "Add", TRUE, <<>>, n) : n \in 0..2}
    \cup {Cmd("Repository", s, TRUE, <<>>, 0) : s \in {"Delete", "List", "None"}}
    \cup {Cmd("Repository", "Add", TRUE, <<>>, n) : n \in 0..2}
    \cup {Cmd("None", "", TRUE, <<>>, 0)}

(* the expressions main evaluates, in evaluation order *)
Call(f) == [e |-> "try_or_error", fn |-> f, arg |-> 0]
Expect == [e |-> "expect", fn |-> "pkg_name", arg |-> 0]
Panic == [e |-> "panic", fn |-> "", arg |-> 0]
SomeOrError(n) == [e |-> "some_or_error", fn |-> "", arg |-> n]

(* the closure core_db of line 24 *)
core_db == Call("open_core_db_connection")

(* lines 49-71: the arm of one subcommand of update *)
update_arm(subcommand) ==
    CASE subcommand = "Local" -> <<core_db, Expect, Call("update_from_lod_file")>>
      [] subcommand = "Index" -> <<core_db, Call("get_and_apply_repository_patches")>>
      [] subcommand = "Db" -> <<Call("update_database_migrations")>>
      [] subcommand = "Packages" -> <<Panic>>
      [] subcommand = "All" -> <<Call("update_database_migrations"), core_db,
                                 Call("get_and_apply_repository_patches")>>
      [] subcommand = "None" -> <<Panic>>

(* lines 49-71: the loop over the subcommands of update *)
RECURSIVE update_arms(_)
update_arms(subcommands) ==
    IF subcommands = <<>> THEN <<>>
    ELSE update_arm(Head(subcommands)) \o update_arms(Tail(subcommands))

(* lines 27-118: the match on the parsed command *)
main_body(c) ==
    CASE c.kind = "Install" /\ c.sub = "Local" -> <<core_db, Call("install_from_lod_file")>>
      [] c.kind = "Install" /\ c.sub = "None" -> <<core_db, Call("install_from_repository")>>
      [] c.kind = "Update" ->
            (IF c.subcommands = <<>>
             THEN <<core_db, Expect, Call("update_from_repository")>>
             ELSE <<>>) \o update_arms(c.subcommands)
      [] c.kind = "Delete" -> <<core_db, Call("delete_lod")>>
      [] c.kind = "Module" /\ c.sub = "None" -> <<core_db, Call("trigger_lpm_module")>>
      [] c.kind = "Module" /\ c.sub = "Add" ->
            <<SomeOrError(1), SomeOrError(2), core_db, Call("add_module")>>
      [] c.kind = "Module" /\ c.sub = "Delete" -> <<core_db, Call("delete_modules")>>
      [] c.kind = "Module" /\ c.sub = "List" -> <<core_db, Call("print_modules")>>
      [] c.kind = "Repository" /\ c.sub = "Add" ->
            <<SomeOrError(1), SomeOrError(2), core_db, Call("add_repository")>>
      [] c.kind = "Repository" /\ c.sub = "Delete" -> <<core_db, Call("delete_repositories")>>
      [] c.kind = "Repository" /\ c.sub = "List" -> <<core_db, Call("print_repositories")>>
      [] c.kind = "Repository" /\ c.sub = "None" -> <<Panic>>
      [] c.kind = "None" -> <<Panic>>

Evaluating(kind) ==
    /\ exit_code = -1
    /\ ip <= Len(main_body(command))
    /\ main_body(command)[ip].e = kind

(* the error is logged and the process exits: logger::error!, exit(101) *)
ExitWithError(kind, f) ==
    /\ errlog' = Append(errlog, [kind |-> kind, fn |-> f])
    /\ exit_code' = 101
    /\ UNCHANGED ip

Continue ==
    /\ ip' = ip + 1
    /\ UNCHANGED <<errlog, exit_code>>

(* variant: the error is logged and main goes on *)
try_or_error_continues ==
    /\ Evaluating("try_or_error")
    /\ \E outcome \in {"Ok", "Err"} :
        /\ calls' = Append(calls, [fn |-> main_body(command)[ip].fn, outcome |-> outcome])
        /\ IF outcome = "Ok" THEN Continue
           ELSE /\ errlog' = Append(errlog, [kind |-> "error", fn |-> main_body(command)[ip].fn])
                /\ ip' = ip + 1
                /\ UNCHANGED exit_code
    /\ UNCHANGED command
    /\ UNCHANGED <<update_vars, migration_vars, foreign_keys>>

(* lines 6-16: try_or_error!(f(..)) calls f; Ok goes on, Err is logged and  *)
(* the process exits with 101                                               *)
try_or_error ==
    /\ Evaluating("try_or_error")
    /\ \E outcome \in {"Ok", "Err"} :
        /\ calls' = Append(calls, [fn |-> main_body(command)[ip].fn, outcome |-> outcome])
        /\ IF outcome = "Ok" THEN Continue
           ELSE ExitWithError("error", main_body(command)[ip].fn)
    /\ UNCHANGED command
    /\ UNCHANGED <<update_vars, migration_vars, foreign_keys>>

(* lines 46 and 54: pkg_name.expect("Package name is missing.") panics on   *)
(* None; the hook of line 19 logs the panic and the process exits with 101  *)
expect ==
    /\ Evaluating("expect")
    /\ IF command.pkg_name THEN Continue
       ELSE ExitWithError("panic", "expect")
    /\ UNCHANGED <<command, calls>>
    /\ UNCHANGED <<update_vars, migration_vars, foreign_keys>>

(* lines 63, 68-70, 110-112, 115-117: todo!() and panic!(..)                *)
panic ==
    /\ Evaluating("panic")
    /\ ExitWithError("panic", "panic")
    /\ UNCHANGED <<command, calls>>
    /\ UNCHANGED <<update_vars, migration_vars, foreign_keys>>

(* lines 82-85 and 98-101: some_or_error!(list.get(n), ..) logs and exits   *)
(* when the argument is not there                                           *)
some_or_error ==
    /\ Evaluating("some_or_error")
    /\ IF command.args >= main_body(command)[ip].arg THEN Continue
       ELSE ExitWithError("missing", "some_or_error")
    /\ UNCHANGED <<command, calls>>
    /\ UNCHANGED <<update_vars, migration_vars, foreign_keys>>

(* line 119: main returns *)
main_returns ==
    /\ exit_code = -1
    /\ ip > Len(main_body(command))
    /\ exit_code' = 0
    /\ UNCHANGED <<command, ip, calls, errlog>>
    /\ UNCHANGED <<update_vars, migration_vars, foreign_keys>>

InitMain ==
    /\ NoUpdate
    /\ NoMigration
    /\ command \in Commands
    /\ ip = 1
    /\ calls = <<>>
    /\ errlog = <<>>
    /\ exit_code = -1
    /\ foreign_keys = FALSE

NextMain ==
    \/ try_or_error
    \/ expect
    \/ panic
    \/ some_or_error
    \/ main_returns

SpecMain == InitMain /\ [][NextMain]_vars

----------------------------------------------------------------------------
(* Properties of the update *)

Returned == pc = "done"

PipelineSteps == {"pre_script", "diff", "sync", "cleanup", "post_script"}

(* the old row, if any, that the catalog held for a path when the run began *)
OldRows(path) == {k \in DOMAIN pre.catalog.files : pre.catalog.files[k].path = path}

InNewManifest(path) == \E k \in DOMAIN to_pkg.files : RootConcat(to_pkg.files[k].path) = path

InOldList(path) == OldRows(path) # {}

(* a manifest entry whose path the old package lists with the same checksum *)
Identical(k) ==
    \E j \in OldRows(RootConcat(to_pkg.files[k].path)) :
        /\ pre.catalog.files[j].checksum_algorithm = to_pkg.files[k].checksum_algorithm
        /\ pre.catalog.files[j].checksum = to_pkg.files[k].checksum

Touched(path) == \E n \in DOMAIN fslog : fslog[n].path = path

(* the files on disk once the whole diff between the old list and the new   *)
(* manifest has been applied to the disk of the start of the run            *)
PostFs ==
    [p \in AbsPaths |->
        IF InNewManifest(p)
        THEN LET k == CHOOSE k \in DOMAIN to_pkg.files : RootConcat(to_pkg.files[k].path) = p
             IN  IF Identical(k) THEN pre.fs[p] ELSE to_pkg.program[to_pkg.files[k].path]
        ELSE IF InOldList(p) THEN "missing" ELSE pre.fs[p]]

(* C1: when an update returns, the files on disk and the catalog rows of    *)
(* the package are together exactly the state before the update or exactly *)
(* the state after it, never a mix.                                         *)
C1_PreOrPostState ==
    Returned =>
        \/ fs = pre.fs /\ catalog = pre.catalog
        \/ fs = PostFs /\ catalog = RowsOf(to_pkg)

(* C2: an update that returns an error after the catalog transaction was    *)
(* opened has called rollback on it before returning; no failing path       *)
(* returns with the transaction left open.                                  *)
C2_RollbackBeforeError ==
    (Returned /\ result # "Ok" /\ txn # "none") => txn \in {"rolledback", "rollback_failed"}

C4_EqualVersionNoOp ==
    (Returned /\ old_pkg.version = to_pkg.version) =>
        /\ result = "Ok"
        /\ executed = <<>>
        /\ fslog = <<>>
        /\ fs = pre.fs
        /\ dirs = pre.dirs
        /\ catalog = pre.catalog
        /\ pending = pre.catalog
        /\ txn = "none"

C4_Witness ==
    Returned /\ old_pkg.version = to_pkg.version /\ to_pkg.files # <<>> /\ runs = 2

(* C5: after a successful update, a file that the old package and the new   *)
(* manifest list at the same path with the same algorithm and checksum has  *)
(* been neither removed nor copied over.                                    *)
C5_IdenticalFilesUntouched ==
    (Returned /\ result = "Ok") =>
        \A k \in DOMAIN to_pkg.files :
            Identical(k) =>
                /\ ~Touched(RootConcat(to_pkg.files[k].path))
                /\ fs[RootConcat(to_pkg.files[k].path)] = pre.fs[RootConcat(to_pkg.files[k].path)]

C5_Witness ==
    /\ Returned /\ result = "Ok" /\ fslog # <<>>
    /\ \E k \in DOMAIN to_pkg.files : Identical(k)

(* C6: once the filesystem diff has returned success, every path of the new *)
(* manifest exists under the root, with the staged content when it was      *)
(* added or replaced; every old file not in the new manifest is gone; and   *)
(* no path outside the old list and the new manifest has changed.           *)
C6_DiffPostcondition ==
    steps["diff"] = "ok" =>
        /\ \A k \in DOMAIN to_pkg.files :
            LET p == RootConcat(to_pkg.files[k].path)
            IN  /\ fs[p] # "missing"
                /\ ~Identical(k) => fs[p] = to_pkg.program[to_pkg.files[k].path]
        /\ \A p \in AbsPaths :
            /\ (InOldList(p) /\ ~InNewManifest(p)) => fs[p] = "missing"
            /\ (~InOldList(p) /\ ~InNewManifest(p)) => fs[p] = pre.fs[p]

(* C7: when an update returns, the staging directory that its extraction    *)
(* created has been deleted, whatever the outcome.                          *)
C7_StagingDeleted == Returned => ~staging

(* C17: the filesystem diff removes only paths that the catalog listed for  *)
(* the old package when the run began, and no directory ever ceases to      *)
(* exist: a directory emptied by the removals is still there.               *)
C17_DirectoriesKept ==
    /\ [](\A n \in DOMAIN fslog : fslog[n].op = "remove" => InOldList(fslog[n].path))
    /\ [][dirs \subseteq dirs']_vars

(* /d/c, the only file of /d, was removed by the second loop; /d is there *)
C17_Witness ==
    /\ steps["diff"] = "ok"
    /\ \E n \in DOMAIN fslog : fslog[n] = [op |-> "remove", path |-> <<"/", "d", "c">>]
    /\ fs[<<"/", "d", "c">>] = "missing"
    /\ <<"/", "d">> \in dirs

(* a version as a number that orders it: a tagged version comes before the *)
(* untagged one with the same numbers                                       *)
Rank(v) == ((v.major * 100 + v.minor) * 100 + v.patch) * 2 + (IF v.tag = "" THEN 1 ELSE 0)

Comparing == pc \notin {"idle", "compare"} /\ Rank(pre.catalog.version) # Rank(to_pkg.version)

ChosenPair ==
    IF Rank(pre.catalog.version) < Rank(to_pkg.version)
    THEN <<"PreUpgrade", "PostUpgrade">>
    ELSE <<"PreDowngrade", "PostDowngrade">>

(* C19: in an update between different versions the phases executed are a   *)
(* prefix of (PreUpgrade, PostUpgrade) when the installed version is less   *)
(* than the requested one and of (PreDowngrade, PostDowngrade) when it is   *)
(* greater; nothing on the filesystem changes before the pre phase ran, the *)
(* post phase runs only after the catalog rewrite and the staging cleanup,  *)
(* and an update that returns Ok has executed exactly the pair, in order.   *)
C19_ScriptPhases ==
    Comparing =>
        /\ Len(executed) <= 2
        /\ \A n \in DOMAIN executed : executed[n] = ChosenPair[n]
        /\ (fslog # <<>> \/ fs # pre.fs \/ dirs # pre.dirs) => Len(executed) >= 1
        /\ Len(executed) = 2 =>
              /\ steps["diff"] = "ok" /\ steps["sync"] = "ok" /\ steps["cleanup"] = "ok"
              /\ ~staging
        /\ (Returned /\ result = "Ok") => executed = ChosenPair

C19_Witness ==
    /\ Returned /\ result = "Ok"
    /\ executed = <<"PreDowngrade", "PostDowngrade">>
    /\ fslog # <<>>
    /\ pre.catalog.version.tag = "" /\ to_pkg.version.tag = "rc"

(* C20: an update that returns an error returns the error of the step that  *)
(* failed first: the script error for a failed pre- or post-script, the     *)
(* filesystem error for a failed diff or cleanup, the database error for a  *)
(* failed catalog rewrite or commit.                                        *)
C20_FirstErrorUnchanged ==
    (Returned /\ result # "Ok") =>
        /\ steps["pre_script"] = "failed" => result = "ScriptFailed"
        /\ steps["diff"] = "failed" => result = "Io"
        /\ steps["sync"] = "failed" => result = "SqlError"
        /\ steps["cleanup"] = "failed" => result = "Io"
        /\ steps["post_script"] = "failed" => result = "ScriptFailed"
        /\ steps["commit"] = "failed" => result = "SqlError"

(* the index of an absolute path in the new manifest and in the old list *)
ManifestIndex(path) ==
    CHOOSE k \in DOMAIN to_pkg.files : RootConcat(to_pkg.files[k].path) = path

OldIndex(path) == CHOOSE j \in OldRows(path) : TRUE

(* C21: the operations of the filesystem diff on paths of the new manifest  *)
(* (the copies of adds, the remove and copy of replacements) happen in the  *)
(* order of the manifest, a replacement being a remove followed by the copy *)
(* to the same path; the removals of old files that the manifest does not   *)
(* list come after all of them, in the order of the old file list.          *)
C21_DiffOrder ==
    \A m, n \in DOMAIN fslog :
        m < n =>
            /\ fslog[m].op = "copy" => InNewManifest(fslog[m].path)
            /\ (InNewManifest(fslog[m].path) /\ InNewManifest(fslog[n].path)) =>
                  \/ ManifestIndex(fslog[m].path) < ManifestIndex(fslog[n].path)
                  \/ /\ fslog[m].path = fslog[n].path
                     /\ n = m + 1
                     /\ fslog[m].op = "remove" /\ fslog[n].op = "copy"
            /\ ~InNewManifest(fslog[m].path) =>
                  /\ ~InNewManifest(fslog[n].path)
                  /\ fslog[m].op = "remove" /\ fslog[n].op = "remove"
                  /\ OldIndex(fslog[m].path) < OldIndex(fslog[n].path)

(* manifest (b, a): /b is added, then /a replaced, then /d/c removed *)
C21_Witness ==
    /\ steps["diff"] = "ok"
    /\ fslog = <<[op |-> "copy", path |-> <<"/", "b">>],
                 [op |-> "remove", path |-> <<"/", "a">>],
                 [op |-> "copy", path |-> <<"/", "a">>],
                 [op |-> "remove", path |-> <<"/", "d", "c">>]>>

(* C22: once an update between different versions has cleaned its staging  *)
(* directory, and so after it returned Ok, the scripts stored under the     *)
(* scripts root of the package are those of the new package.                *)
C22_NewScriptsInstalled ==
    Comparing =>
        /\ steps["cleanup"] = "ok" => installed_scripts = to_pkg.version
        /\ (Returned /\ result = "Ok") => installed_scripts = to_pkg.version

(* C23: a connection to the core database on which a statement has run has  *)
(* foreign-key enforcement enabled: in the update path the connection of    *)
(* update_lod that loads the installed package and the connection of the    *)
(* task that rewrites the catalog, in the migration driver the connection   *)
(* that runs the migration steps.                                           *)
C23_ForeignKeysEnabled ==
    /\ pc \notin {"idle", "done"} => foreign_keys
    /\ steps["sync"] # "none" => foreign_keys
    /\ (mpc \notin {"idle", "done"} \/ mlog # <<>>) => foreign_keys

----------------------------------------------------------------------------
(* Properties of the validation *)

Validated == steps["validate"] # "none"

ValidationResult == IF steps["validate"] = "ok" THEN "Ok" ELSE result

UpperLetters == <<"A", "B", "C", "D", "E", "F", "H", "M", "S">>
LowerLetters == <<"a", "b", "c", "d", "e", "f", "h", "m", "s">>

FoldCase(s) ==
    [k \in DOMAIN s |->
        IF \E n \in DOMAIN UpperLetters : UpperLetters[n] = s[k]
        THEN LowerLetters[CHOOSE n \in DOMAIN UpperLetters : UpperLetters[n] = s[k]]
        ELSE s[k]]

EqualIgnoringCase(s, t) == FoldCase(s) = FoldCase(t)

ArchAccepted == to_pkg.arch = "any" \/ to_pkg.arch = "x86_64"

Readable(k) == to_pkg.program[to_pkg.files[k].path] # "missing"

KindOf(k) ==
    LET name == to_pkg.files[k].checksum_algorithm
    IN  IF EqualIgnoringCase(name, <<"m", "d", "5">>) THEN "Md5"
        ELSE IF EqualIgnoringCase(name, <<"s", "h", "a", "2", "5", "6">>) THEN "Sha256"
        ELSE IF EqualIgnoringCase(name, <<"s", "h", "a", "5", "1", "2">>) THEN "Sha512"
        ELSE "unsupported"

Supported(k) == KindOf(k) # "unsupported"

(* the hex digest of the staged file of entry k under its algorithm *)
HexDigest(k) ==
    <<CASE KindOf(k) = "Md5" -> "a" [] KindOf(k) = "Sha256" -> "b" [] KindOf(k) = "Sha512" -> "c",
      CASE to_pkg.program[to_pkg.files[k].path] = "c1" -> "1" [] OTHER -> "2">>

(* entry k passes the validator: readable, supported, digest equal as is *)
Passes(k) == Readable(k) /\ Supported(k) /\ HexDigest(k) = to_pkg.files[k].checksum

(* C8: validation fails with the architecture error exactly when the        *)
(* package architecture is neither "any" nor the host architecture, and on  *)
(* such a mismatch no staged file is opened (so no checksum error arises).  *)
C8_ArchitectureFirst ==
    Validated =>
        /\ (ValidationResult = "UnsupportedPackageArchitecture") <=> ~ArchAccepted
        /\ ~ArchAccepted => reads = <<>>

C8_Witness ==
    /\ Validated /\ to_pkg.arch = "arm"
    /\ Len(to_pkg.files) = MaxEntries
    /\ \A k \in DOMAIN to_pkg.files : Readable(k) /\ ~Passes(k)

(* C9: when every entry is readable and has a supported algorithm,          *)
(* validation succeeds exactly when every manifest checksum equals the      *)
(* computed hex digest ignoring letter case, and fails with                 *)
(* InvalidPackageFiles otherwise.                                           *)
C9_ChecksumIgnoringCase ==
    (Validated /\ ArchAccepted /\ \A k \in DOMAIN to_pkg.files : Readable(k) /\ Supported(k)) =>
        IF \A k \in DOMAIN to_pkg.files : EqualIgnoringCase(HexDigest(k), to_pkg.files[k].checksum)
        THEN ValidationResult = "Ok"
        ELSE ValidationResult = "InvalidPackageFiles"

(* C10 as stated: with an accepted architecture, an entry whose algorithm   *)
(* is not md5, sha256 or sha512 (ignoring case), reached after entries that *)
(* all pass, makes validation fail with UnsupportedChecksumAlgorithm        *)
(* whether or not its staged file exists.                                   *)
C10_UnsupportedWhateverTheFile ==
    (Validated /\ ArchAccepted) =>
        \A k \in DOMAIN to_pkg.files :
            (~Supported(k) /\ \A j \in 1..(k - 1) : Passes(j)) =>
                ValidationResult = "UnsupportedChecksumAlgorithm"

(* C10 amended: validation fails with UnsupportedChecksumAlgorithm exactly  *)
(* when the architecture is accepted and the first entry that does not pass *)
(* has a readable staged file and an algorithm that is not md5, sha256 or   *)
(* sha512 ignoring case; a successful validation has only such algorithms.  *)
C10_UnsupportedAlgorithm ==
    Validated =>
        /\ (ValidationResult = "UnsupportedChecksumAlgorithm") <=>
              /\ ArchAccepted
              /\ \E k \in DOMAIN to_pkg.files :
                    /\ ~Supported(k) /\ Readable(k)
                    /\ \A j \in 1..(k - 1) : Passes(j)
        /\ ValidationResult = "Ok" => \A k \in DOMAIN to_pkg.files : Supported(k)

C10_Witness ==
    /\ Validated /\ ValidationResult = "UnsupportedChecksumAlgorithm"
    /\ Len(reads) = 2
    /\ to_pkg.files[1].checksum_algorithm = <<"M", "D", "5">>

(* C11: with an accepted architecture, when the first manifest entry that   *)
(* does not pass has no file under the staged program/ directory,           *)
(* validation fails with the MalformedPackage error kind.                   *)
C11_MissingFileMalformed ==
    (Validated /\ ArchAccepted) =>
        \A k \in DOMAIN to_pkg.files :
            (~Readable(k) /\ \A j \in 1..(k - 1) : Passes(j)) =>
                ValidationResult = "MalformedPackage"

----------------------------------------------------------------------------
(* Properties of the migrations *)

MigrationReturned == mpc = "done"

AllTables ==
    {"checksum_kinds", "package_kinds", "repositories", "packages", "files",
     "package_tags", "modules"}

AllTriggers == {"repositories_update_trigger", "packages_update_trigger"}

SeedRows == <<"md5", "sha256", "sha512">>

(* the statements of migration step k have all been applied to database d *)
Applied(d, k) ==
    CASE k = 1 -> AllTables \subseteq d.tables
      [] k = 2 -> AllTriggers \subseteq d.triggers
      [] k = 3 -> \A n \in DOMAIN SeedRows : \E j \in DOMAIN d.checksum_kinds :
                        d.checksum_kinds[j] = SeedRows[n]

(* database d holds what the steps 1..k create and nothing else, at version k *)
ExactlyAt(d, k) ==
    /\ d.user_version = k
    /\ d.tables = (IF k >= 1 THEN AllTables ELSE {})
    /\ d.triggers = (IF k >= 2 THEN AllTriggers ELSE {})
    /\ d.checksum_kinds = (IF k >= 3 THEN SeedRows ELSE <<>>)

(* C12: once a run has executed step k and written its version, a version   *)
(* check for k would not migrate (k is not above the stored version); in a  *)
(* run that follows a successful run every step is skipped and the tables,  *)
(* triggers, seed rows and stored version stay as they were.                *)
C12_SecondRunNoOp ==
    /\ \A i \in DOMAIN mlog :
          (mlog[i].op = "set_version" /\ mlog[i].ok) => ~(mlog[i].version > db.user_version)
    /\ mprev = "Ok" =>
          /\ \A i \in DOMAIN mlog : mlog[i].op = "skip"
          /\ db = mstart

C12_Witness ==
    /\ mprev = "Ok" /\ MigrationReturned /\ mresult = "Ok"
    /\ Len(mlog) = 3
    /\ ExactlyAt(db, 3)

(* C13: a run that returns Ok, started on a database at stored version k    *)
(* holding exactly what the steps 1..k create (k from 0 to 3), ends with    *)
(* the tables, triggers, seed rows and stored version that a run on a new   *)
(* database at version 0 ends with: all of them, at version 3.              *)
C13_SameFinalSchema ==
    (MigrationReturned /\ mresult = "Ok" /\ \E k \in 0..3 : ExactlyAt(mstart, k)) =>
        ExactlyAt(db, 3)

C13_Witness ==
    /\ MigrationReturned /\ mresult = "Ok"
    /\ ExactlyAt(mstart, 1)
    /\ mlog[1].op = "skip" /\ mlog[2].op = "execute" /\ mlog[4].op = "execute"

(* C14: between migration runs (before the first, and after a run returned, *)
(* with Ok or with an error) the stored version is the index of the highest *)
(* migration step whose statements have all been applied to the database.   *)
C14_VersionIsHighestApplied ==
    mpc \in {"idle", "done"} =>
        /\ \A k \in 1..3 : Applied(db, k) => db.user_version >= k
        /\ db.user_version > 0 => Applied(db, db.user_version)

(* C15: when the statements of a migration step fail or its version write   *)
(* fails, that is the last thing the run does: no later step is visited and *)
(* migrate_database_tables has returned a MigrationError.                   *)
C15_FailureAborts ==
    \A i \in DOMAIN mlog :
        ~mlog[i].ok =>
            /\ i = Len(mlog)
            /\ MigrationReturned
            /\ mresult = "MigrationError"

C15_Witness ==
    /\ mresult = "MigrationError"
    /\ Len(mlog) = 2
    /\ mlog[2].op = "set_version" /\ ~mlog[2].ok
    /\ mlog[2].fn = "create_core_tables"

StepFunctions ==
    <<"create_core_tables", "create_update_triggers_for_core_tables", "insert_defaults">>

IsVisit(e) == e.op \in {"skip", "execute"}

(* C18: from every initial stored version, a run visits the migration steps *)
(* in the order k = 1, 2, 3; it skips step k when the stored version is at  *)
(* least k and otherwise executes the statements of step k and then sets    *)
(* the stored version to k; the stored version never decreases.             *)
C18_StepsInOrder ==
    /\ [](LET visits == SelectSeq(mlog, IsVisit)
          IN  /\ \A i \in DOMAIN visits :
                    visits[i].version = i /\ visits[i].fn = StepFunctions[i]
              /\ \A i \in DOMAIN mlog :
                    /\ mlog[i].op = "skip" => mlog[i].stored >= mlog[i].version
                    /\ mlog[i].op = "execute" => mlog[i].stored < mlog[i].version
                    /\ (mlog[i].op = "execute" /\ mlog[i].ok) =>
                          /\ i < Len(mlog)
                          /\ mlog[i + 1].op = "set_version"
                          /\ mlog[i + 1].version = mlog[i].version
                    /\ mlog[i].op = "set_version" =>
                          /\ i > 1
                          /\ mlog[i - 1].op = "execute" /\ mlog[i - 1].ok
                    /\ (mlog[i].op = "set_version" /\ mlog[i].ok /\ i = Len(mlog)) =>
                          db.user_version = mlog[i].version)
    /\ [][db'.user_version >= db.user_version]_vars

C18_Witness ==
    /\ MigrationReturned /\ mresult = "Ok"
    /\ mstart.user_version = 2
    /\ Len(mlog) = 4
    /\ mlog[1].op = "skip" /\ mlog[2].op = "skip" /\ mlog[3].op = "execute"
    /\ db.user_version = 3

----------------------------------------------------------------------------
(* Properties of main *)

Exited == exit_code # -1

EveryCallSucceeded == \A i \in DOMAIN calls : calls[i].outcome = "Ok"

(* a command handler was called, not only the opening of the core database *)
HandlerCalled == \E i \in DOMAIN calls : calls[i].fn # "open_core_db_connection"

(* a handler that returned an error: it is the last call of the process,    *)
(* the error is in the log and the exit code is 101                         *)
ErrorEndsTheProcess ==
    \A i \in DOMAIN calls :
        calls[i].outcome = "Err" =>
            /\ i = Len(calls)
            /\ exit_code = 101
            /\ errlog = <<[kind |-> "error", fn |-> calls[i].fn]>>

(* C16 as stated: a handler that returns an error is logged and ends the    *)
(* process with code 101 before any later handler runs; a process whose     *)
(* handlers were called and all succeeded exits with code 0.                *)
C16_ExitCodes ==
    /\ ErrorEndsTheProcess
    /\ (Exited /\ HandlerCalled /\ EveryCallSucceeded) => exit_code = 0

(* C16 amended: a handler that returns an error is logged and ends the      *)
(* process with code 101 before any later handler runs; the process exits   *)
(* with code 0 exactly when every call succeeded and main met no panicking  *)
(* arm and no missing argument, and with code 101 otherwise.                *)
C16_ExitCodesUnlessPanic ==
    /\ ErrorEndsTheProcess
    /\ Exited =>
          /\ exit_code \in {0, 101}
          /\ exit_code = 0 <=> (EveryCallSucceeded /\ errlog = <<>>)

(* update --all whose migrations failed: the patches were not applied *)
C16_Witness ==
    /\ command.kind = "Update" /\ command.subcommands = <<"All">>
    /\ calls = <<[fn |-> "update_database_migrations", outcome |-> "Err"]>>
    /\ exit_code = 101

====
